---- MODULE Spec2Model ----
(***************************************************************************)
(* Model of pyTMST.py: the five analysis entry points AMa_spectrum,        *)
(* AMa_scalogram, AMi_spectrum, f0M_spectrum and f0M_scalogram.            *)
(*                                                                         *)
(* One behaviour is one call of one entry point.  Init draws the entry     *)
(* point and its arguments; the actions are the successive blocks of the   *)
(* called function (validation, front end, size-probe loop, allocation,    *)
(* fill loop, return).                                                     *)
(*                                                                         *)
(* Units.  The scalograms use shift = 0.1 s; the model's unit of time for  *)
(* window lengths is one shift, so a modulation frequency is given by its  *)
(* period in shifts and fs (Hz) is 10 * (samples per shift).  Time stamps  *)
(* of f0M_spectrum are kept as numerators over fs (t = k / fs is k).       *)
(* Floating-point "missing" (NaN) is the value NaN below; arithmetic on it *)
(* is NaN-absorbing, as in IEEE 754.                                       *)
(***************************************************************************)
EXTENDS Integers, Sequences, FiniteSets, TLC

VARIABLES
    fn,             \* the entry point called
    pc,             \* position inside the entry point
    sig,            \* Python type of the sig argument
    fs,             \* the fs argument: [type, kind, val]
    calls,          \* the collaborators called so far
    result,         \* "none", "returned" or the exception raised
    Nsig,           \* len(sig)
    Nchan,          \* fc.shape[0]
    modbank_Nmod,   \* the modbank_Nmod argument
    f_spectra,      \* modulation axis, as periods in shifts
    window_NT,      \* the window_NT argument
    Pxx,            \* Pxx[c]: power the periodogram reports for channel c
    ichan,          \* loop variable of the channel loops
    ifreq,          \* loop variable of the frequency loops
    dims,           \* the list dims (as the set of its members)
    dim,            \* first dimension of the scalogram
    n_windows,      \* n_windows as last assigned
    allocs,         \* how many times the accumulation grid was allocated
    AMsgram,        \* accumulation grid of AMa_scalogram
    AMspec,         \* per-channel grid of AMa_scalogram / matrix of AMa_spectrum
    f0Msgram,       \* grid of f0M_scalogram
    written,        \* assignments of the fill pass: [chan, index, ifreq, val]
    t,              \* time axis put in the diagnostics bundle
    undersample,    \* the undersample argument
    f0,             \* f0 track after gating and remove_artifacts
    f0_wo_nan,      \* f0 samples handed to lombscargle
    t_wo_nan,       \* time stamps handed to lombscargle
    AMIspec         \* matrix returned by AMi_spectrum

vars == <<fn, pc, sig, fs, calls, result, Nsig, Nchan, modbank_Nmod, f_spectra,
          window_NT, Pxx, ichan, ifreq, dims, dim, n_windows, allocs, AMsgram,
          AMspec, f0Msgram, written, t, undersample, f0, f0_wo_nan, t_wo_nan,
          AMIspec>>

(***************************************************************************)
(* Bounds of the model.                                                    *)
(***************************************************************************)
MaxLen == 3         \* longest signal, in samples
MaxChan == 2        \* most auditory channels
MaxMod == 3         \* most modulation frequencies
MaxPeriod == 3      \* longest modulation period, in shifts
MaxNT == 2          \* largest window_NT
MaxEst == 1         \* largest per-channel power estimate
MaxUs == 2          \* largest undersample factor

(***************************************************************************)
(* Values.                                                                 *)
(***************************************************************************)
NaN == -1           \* np.nan; every measured power is >= 0
Shift == 1          \* shift = 0.1 s, the unit of window lengths
SamplesPerHz == 10  \* 1 / shift: fs Hz is fs / 10 samples per shift

IsNaN(x) == x = NaN
\* IEEE addition and the factor 2 of "2 * Efft[1]".
Add(a, b) == IF IsNaN(a) \/ IsNaN(b) THEN NaN ELSE a + b
Twice(a) == IF IsNaN(a) THEN NaN ELSE 2 * a

Max(S) == CHOOSE x \in S : \A y \in S : y <= x
CeilDiv(a, b) == (a + b - 1) \div b

EntryPoints == {"AMa_spectrum", "AMa_scalogram", "AMi_spectrum",
                "f0M_spectrum", "f0M_scalogram"}
AMaEntryPoints == {"AMa_spectrum", "AMa_scalogram", "AMi_spectrum"}
f0MEntryPoints == {"f0M_spectrum", "f0M_scalogram"}
Scalograms == {"AMa_scalogram", "f0M_scalogram"}

\* Python types a caller may pass as sig, and values it may pass as fs.
SigTypes == {"ndarray", "list", "str"}
FsValues == {[type |-> "int", kind |-> "fin", val |-> -10],
             [type |-> "int", kind |-> "fin", val |-> 0],
             [type |-> "int", kind |-> "fin", val |-> 10],
             [type |-> "float", kind |-> "fin", val |-> 20],
             [type |-> "float", kind |-> "inf", val |-> 0],
             [type |-> "float", kind |-> "nan", val |-> 0],
             [type |-> "str", kind |-> "fin", val |-> 0]}

(***************************************************************************)
(* Input validation of AMa_spectrum, AMa_scalogram and AMi_spectrum.       *)
(***************************************************************************)
InvalidTypes == "ValueError: Invalid input types."
NotPositive == "ValueError: fs must be a positive scalar."

\* isinstance(sig, np.ndarray) and isinstance(fs, (int, float))
TypesOK(s, f) == s = "ndarray" /\ f.type \in {"int", "float"}

\* fs <= 0 on a Python number: false for +inf and for nan
FsLeqZero(f) == f.kind = "fin" /\ f.val <= 0

\* The arguments the bodies below are modelled for.
WellFormed(s, f) == s = "ndarray" /\ f.type \in {"int", "float"}
                    /\ f.kind = "fin" /\ f.val > 0

(***************************************************************************)
(* Window bookkeeping shared by the two scalograms.                        *)
(***************************************************************************)
\* Python round(a / b) on an exact quotient: ties go to the even integer.
\* The code rounds a binary floating-point quotient, which may fall on
\* either side of a tie; both passes evaluate the same expression.
RoundHalfEven(a, b) ==
    LET q == a \div b
        r == a % b
    IN  IF 2 * r < b THEN q
        ELSE IF 2 * r > b THEN q + 1
        ELSE IF q % 2 = 0 THEN q ELSE q + 1

\* window_length = window_NT * (1 / f_spectra[ifreq]), in shifts
WindowLength(NT, period) == NT * period

\* round(window_length / 2 / shift)
HalfWindow(wl) == RoundHalfEven(wl, 2 * Shift)

\* iwin + round(window_length / 2 / shift) + 1, the size a window asks for
\* (DimOfNoPlusOne: the same without the + 1)
DimOfNoPlusOne(iwin, wl) == iwin + HalfWindow(wl)
DimOf(iwin, wl) == iwin + HalfWindow(wl) + 1

\* index = iwin + round(window_length / 2 / shift), the row a window writes
IndexOf(iwin, wl) == iwin + HalfWindow(wl)

\* segment_into_windows(x, rate, window_length, shift, pad).shape[0] for x of
\* n samples at rate = num / den Hz: windows start every shift; a window that
\* runs past the end is zero-padded when pad is set and dropped otherwise.
\* Span(n, den) and a length wl * num are in units of shift / (SamplesPerHz * num).
Span(n, den) == n * SamplesPerHz * den
NumWindows(n, num, den, wl, pad) ==
    IF pad THEN CeilDiv(Span(n, den), Shift * num)
    ELSE IF Span(n, den) >= wl * num
         THEN (Span(n, den) - wl * num) \div (Shift * num) + 1
         ELSE 0

\* The samples (1-based) of a track of n samples that window iwin holds.
WindowSamples(iwin, n, num, den, wl) ==
    {k \in 1..n : /\ iwin * Shift * num <= Span(k - 1, den)
                  /\ Span(k - 1, den) < (iwin * Shift + wl) * num}

\* np.zeros((d, Nmod))
Cells(d, Nmod) == (0..(d - 1)) \X (1..Nmod)
Zeros(d, Nmod) == [c \in Cells(d, Nmod) |-> 0]

\* g[g == 0] = np.nan  (ZeroToNaNKeep: the same with the replacement left out)
ZeroToNaNKeep(g) == g
ZeroToNaN(g) == [c \in DOMAIN g |-> IF g[c] = 0 THEN NaN ELSE g[c]]

\* g += h
GridAdd(g, h) == [c \in DOMAIN g |-> Add(g[c], h[c])]

\* The modulation axes define_modulation_axis may return: Nmod strictly
\* increasing frequencies, i.e. strictly decreasing periods.
Axes(Nmod) == {a \in [1..Nmod -> 1..MaxPeriod] :
                  \A i \in 1..Nmod, j \in 1..Nmod : i < j => a[i] > a[j]}

EmptyMax == "ValueError: max() arg is an empty sequence"
OutOfBounds == "IndexError: index is out of bounds"

(***************************************************************************)
(* Arrays of AMi_spectrum.  A matrix is [rows, cols, at]; its entries are  *)
(* kept symbolic: Rms(c, m) stands for the sqrt(2)-scaled RMS over time of *)
(* AMfilt[c, m, :] and DCof(c) for the envelope mean of channel c.         *)
(***************************************************************************)
Idx(r, c) == (1..r) \X (1..c)
NoMatrix == [rows |-> 0, cols |-> 0, at |-> <<>>]

Rms(c, m) == <<"rms", c, m>>
DCof(c) == <<"dc", c>>
Quotient(x, y) == [num |-> x, den |-> y]

\* AMrms = np.sqrt(np.mean(AMfilt ** 2, axis=2)) * np.sqrt(2), for AMfilt
\* shaped (Nchan, Nmod, T)
AMrmsOf(nchan, nmod) ==
    [rows |-> nchan, cols |-> nmod,
     at |-> [ij \in Idx(nchan, nmod) |-> Rms(ij[1], ij[2])]]

\* M.T
Transpose(M) ==
    [rows |-> M.cols, cols |-> M.rows,
     at |-> [ij \in Idx(M.cols, M.rows) |-> M.at[<<ij[2], ij[1]>>]]]

\* DC[:, np.newaxis] * np.ones(n), for DC = np.mean(E.T, axis=0) of shape (nchan,)
DCGrid(nchan, n) ==
    [rows |-> nchan, cols |-> n,
     at |-> [ij \in Idx(nchan, n) |-> DCof(ij[1])]]

\* numpy broadcasting of two 2-D shapes
Broadcastable(A, B) ==
    /\ (A.rows = B.rows \/ A.rows = 1 \/ B.rows = 1)
    /\ (A.cols = B.cols \/ A.cols = 1 \/ B.cols = 1)
Pick(n, i) == IF n = 1 THEN 1 ELSE i
\* A / B elementwise
Divide(A, B) ==
    LET r == IF A.rows >= B.rows THEN A.rows ELSE B.rows
        c == IF A.cols >= B.cols THEN A.cols ELSE B.cols
    IN  [rows |-> r, cols |-> c,
         at |-> [ij \in Idx(r, c) |->
                    Quotient(A.at[<<Pick(A.rows, ij[1]), Pick(A.cols, ij[2])>>],
                             B.at[<<Pick(B.rows, ij[1]), Pick(B.cols, ij[2])>>])]]

\* AMIspec = AMrms.T / (DC[:, np.newaxis] * np.ones(mf.shape[0]))
AMIspecOf(nchan, nmod) ==
    Divide(Transpose(AMrmsOf(nchan, nmod)), DCGrid(nchan, nmod))
AMIspecOK(nchan, nmod) ==
    Broadcastable(Transpose(AMrmsOf(nchan, nmod)), DCGrid(nchan, nmod))

BroadcastError == "ValueError: operands could not be broadcast together"

(***************************************************************************)
(* Arrays of f0M_spectrum.  Sequences are 1-based; Python index k is k+1.  *)
(***************************************************************************)
\* np.arange(1, n + 1) / fs, as numerators over fs
Arange(n) == [k \in 1..n |-> k]

\* a[::step]
Stride(a, step) == [k \in 1..CeilDiv(Len(a), step) |-> a[(k - 1) * step + 1]]

\* a[:n]
Prefix(a, n) == [k \in 1..(IF n < Len(a) THEN n ELSE Len(a)) |-> a[k]]

\* ~np.isnan(x)
NotNaNMask(x) == [k \in 1..Len(x) |-> ~IsNaN(x[k])]

\* a[mask] for a boolean mask of the length of a
RECURSIVE BoolIndex(_, _)
BoolIndex(a, mask) ==
    IF Len(a) = 0 THEN <<>>
    ELSE LET n == Len(a)
             init == BoolIndex(SubSeq(a, 1, n - 1), SubSeq(mask, 1, n - 1))
         IN  IF mask[n] THEN Append(init, a[n]) ELSE init

\* t_f0 = np.arange(1, len(f0) + 1) / (fs / undersample), as numerators over fs
TimeAxisF0(n, us) == [k \in 1..n |-> k * us]

\* The Hz value of pitch frame k when it is not missing.
F0Hz(k) == 100 + k

MaskMismatch == "IndexError: boolean index did not match indexed array"
FloorDivTypeError == "TypeError: unsupported operand type(s) for //"

(***************************************************************************)
(* Initial states: one call of one entry point.                            *)
(***************************************************************************)
NoGrid == Zeros(0, 0)

Init ==
    /\ fn \in EntryPoints
    /\ pc = "start"
    /\ sig \in SigTypes
    /\ fs \in FsValues
    /\ calls = {}
    /\ result = "none"
    /\ ichan = 1
    /\ ifreq = 1
    /\ dims = {}
    /\ dim = 0
    /\ n_windows = 0
    /\ allocs = 0
    /\ AMsgram = NoGrid
    /\ AMspec = NoGrid
    /\ f0Msgram = NoGrid
    /\ written = {}
    /\ t = <<>>
    /\ f0 = <<>>
    /\ f0_wo_nan = <<>>
    /\ t_wo_nan = <<>>
    /\ AMIspec = NoMatrix
    /\ IF WellFormed(sig, fs)
       THEN /\ Nsig \in 0..MaxLen
            /\ Nchan \in IF fn \in AMaEntryPoints THEN 1..MaxChan ELSE {1}
            /\ modbank_Nmod \in 1..MaxMod
            /\ f_spectra \in Axes(modbank_Nmod)
            /\ window_NT \in IF fn \in Scalograms THEN 1..MaxNT ELSE {1}
            /\ Pxx \in IF fn = "AMi_spectrum" \/ fn = "f0M_spectrum"
                       THEN {[c \in 1..Nchan |-> 1]}
                       ELSE [1..Nchan -> 0..MaxEst]
            /\ undersample \in IF fn \in f0MEntryPoints THEN 1..MaxUs ELSE {1}
       ELSE /\ Nsig = 1
            /\ Nchan = 1
            /\ modbank_Nmod = 1
            /\ f_spectra = <<1>>
            /\ window_NT = 1
            /\ Pxx = <<1>>
            /\ undersample = 1

(***************************************************************************)
(* AMa_spectrum, AMa_scalogram, AMi_spectrum: validation and front end.    *)
(***************************************************************************)
Validate ==
    /\ pc = "start"
    /\ fn \in AMaEntryPoints
    /\ IF ~TypesOK(sig, fs)
       THEN pc' = "done" /\ result' = InvalidTypes
       ELSE IF FsLeqZero(fs)
            THEN pc' = "done" /\ result' = NotPositive
            ELSE pc' = "front" /\ result' = result
    /\ UNCHANGED <<fn, sig, fs, calls, Nsig, Nchan, modbank_Nmod, f_spectra,
                   window_NT, Pxx, ichan, ifreq, dims, dim, n_windows, allocs,
                   AMsgram, AMspec, f0Msgram, written, t, undersample, f0,
                   f0_wo_nan, t_wo_nan, AMIspec>>

\* t, auditory_filterbank, hilbert, and the axis or the modulation filterbank.
\* With fs = inf or nan the filterbank is called outside its contract and the
\* model follows the call no further.
FrontEnd ==
    /\ pc = "front"
    /\ IF fs.kind # "fin"
       THEN /\ calls' = calls \cup {"auditory_filterbank"}
            /\ pc' = "collab"
       ELSE /\ calls' = calls \cup {"auditory_filterbank", "hilbert",
                                    IF fn = "AMi_spectrum"
                                    THEN "king2019_modfilterbank_updated"
                                    ELSE "define_modulation_axis"}
            /\ pc' = CASE fn = "AMa_spectrum" -> "spectrum"
                       [] fn = "AMa_scalogram" -> "probe"
                       [] fn = "AMi_spectrum" -> "intensity"
    /\ UNCHANGED <<fn, sig, fs, result, Nsig, Nchan, modbank_Nmod, f_spectra,
                   window_NT, Pxx, ichan, ifreq, dims, dim, n_windows, allocs,
                   AMsgram, AMspec, f0Msgram, written, t, undersample, f0,
                   f0_wo_nan, t_wo_nan, AMIspec>>

\* AMa_spectrum: AMspec[:, ichan] = 2 * Pxx for every channel, then return.
AMaSpectrumBody ==
    /\ pc = "spectrum"
    /\ AMspec' = [c \in Idx(modbank_Nmod, Nchan) |-> Twice(Pxx[c[2]])]
    /\ t' = Arange(Nsig)
    /\ calls' = calls \cup {"periodogram", "aud_filt_bw"}
    /\ result' = "returned"
    /\ pc' = "done"
    /\ UNCHANGED <<fn, sig, fs, Nsig, Nchan, modbank_Nmod, f_spectra,
                   window_NT, Pxx, ichan, ifreq, dims, dim, n_windows, allocs,
                   AMsgram, f0Msgram, written, undersample, f0,
                   f0_wo_nan, t_wo_nan, AMIspec>>

\* AMi_spectrum: AMrms, DC, AMIspec, then return.
AMiBody ==
    /\ pc = "intensity"
    /\ IF AMIspecOK(Nchan, modbank_Nmod)
       THEN /\ AMIspec' = AMIspecOf(Nchan, modbank_Nmod)
            /\ calls' = calls \cup {"aud_filt_bw"}
            /\ result' = "returned"
       ELSE /\ result' = BroadcastError
            /\ UNCHANGED <<AMIspec, calls>>
    /\ pc' = "done"
    /\ UNCHANGED <<fn, sig, fs, Nsig, Nchan, modbank_Nmod, f_spectra,
                   window_NT, Pxx, ichan, ifreq, dims, dim, n_windows, allocs,
                   AMsgram, AMspec, f0Msgram, written, t, undersample, f0,
                   f0_wo_nan, t_wo_nan>>

(***************************************************************************)
(* AMa_scalogram.                                                          *)
(***************************************************************************)
\* The assignments AMspec[index, ifreq] = Efft of one (ichan, ifreq) iteration.
AMaNumWindows(m) ==
    NumWindows(Nsig, fs.val, 1, WindowLength(window_NT, f_spectra[m]), TRUE)

AMaWrites(c, m) ==
    LET wl == WindowLength(window_NT, f_spectra[m])
        nw == AMaNumWindows(m)
    IN  {[chan |-> c, index |-> IndexOf(iwin, wl), ifreq |-> m,
          val |-> Twice(Pxx[c])] : iwin \in 0..(nw - 1)}

\* g after the assignments ws
Assign(g, ws) ==
    [c \in DOMAIN g |->
        IF \E w \in ws : <<w.index, w.ifreq>> = c
        THEN (CHOOSE w \in ws : <<w.index, w.ifreq>> = c).val
        ELSE g[c]]

\* One (ichan, ifreq) iteration of the size-probe loops.
AMaProbe ==
    /\ pc = "probe"
    /\ fn = "AMa_scalogram"
    /\ LET wl == WindowLength(window_NT, f_spectra[ifreq])
           nw == AMaNumWindows(ifreq)
       IN  /\ dims' = dims \cup {DimOf(iwin, wl) : iwin \in 0..(nw - 1)}
           /\ n_windows' = nw
    /\ calls' = calls \cup {"segment_into_windows"}
    /\ IF ifreq < modbank_Nmod
       THEN ifreq' = ifreq + 1 /\ UNCHANGED <<ichan, pc>>
       ELSE IF ichan < Nchan
            THEN ichan' = ichan + 1 /\ ifreq' = 1 /\ pc' = pc
            ELSE pc' = "alloc" /\ UNCHANGED <<ichan, ifreq>>
    /\ UNCHANGED <<fn, sig, fs, result, Nsig, Nchan, modbank_Nmod, f_spectra,
                   window_NT, Pxx, dim, allocs, AMsgram, AMspec, f0Msgram,
                   written, t, undersample, f0, f0_wo_nan, t_wo_nan, AMIspec>>

\* dim = max(dims); AMsgram = np.zeros((dim, modbank_Nmod)); first AMspec.
AMaAlloc ==
    /\ pc = "alloc"
    /\ fn = "AMa_scalogram"
    /\ IF dims = {}
       THEN /\ result' = EmptyMax
            /\ pc' = "done"
            /\ UNCHANGED <<dim, AMsgram, AMspec, allocs, ichan, ifreq>>
       ELSE /\ dim' = Max(dims)
            /\ AMsgram' = Zeros(dim', modbank_Nmod)
            /\ AMspec' = Zeros(dim', modbank_Nmod)
            /\ allocs' = allocs + 1
            /\ ichan' = 1
            /\ ifreq' = 1
            /\ pc' = "fill"
            /\ result' = result
    /\ UNCHANGED <<fn, sig, fs, calls, Nsig, Nchan, modbank_Nmod, f_spectra,
                   window_NT, Pxx, dims, n_windows, f0Msgram, written, t,
                   undersample, f0, f0_wo_nan, t_wo_nan, AMIspec>>

\* One (ichan, ifreq) iteration of the fill loops.
AMaFill ==
    /\ pc = "fill"
    /\ fn = "AMa_scalogram"
    /\ LET ws == AMaWrites(ichan, ifreq)
       IN  /\ written' = written \cup ws
           /\ n_windows' = AMaNumWindows(ifreq)
           /\ IF \E w \in ws : w.index >= dim
              THEN /\ result' = OutOfBounds
                   /\ pc' = "done"
                   /\ UNCHANGED <<AMspec, ifreq>>
              ELSE /\ AMspec' = Assign(AMspec, ws)
                   /\ result' = result
                   /\ IF ifreq < modbank_Nmod
                      THEN ifreq' = ifreq + 1 /\ pc' = pc
                      ELSE ifreq' = ifreq /\ pc' = "chanend"
    /\ calls' = calls \cup {"segment_into_windows", "periodogram"}
    /\ UNCHANGED <<fn, sig, fs, Nsig, Nchan, modbank_Nmod, f_spectra,
                   window_NT, Pxx, ichan, dims, dim, allocs, AMsgram,
                   f0Msgram, t, undersample, f0, f0_wo_nan, t_wo_nan, AMIspec>>

\* End of one channel iteration: AMsgram += AMspec; AMsgram[AMsgram == 0] = nan.
AMaChanEnd ==
    /\ pc = "chanend"
    /\ AMsgram' = ZeroToNaN(GridAdd(AMsgram, AMspec))
    /\ IF ichan < Nchan
       THEN /\ ichan' = ichan + 1
            /\ ifreq' = 1
            /\ AMspec' = Zeros(dim, modbank_Nmod)
            /\ pc' = "fill"
       ELSE /\ pc' = "finish"
            /\ UNCHANGED <<ichan, ifreq, AMspec>>
    /\ UNCHANGED <<fn, sig, fs, calls, result, Nsig, Nchan, modbank_Nmod,
                   f_spectra, window_NT, Pxx, dims, dim, n_windows, allocs,
                   f0Msgram, written, t, undersample, f0, f0_wo_nan,
                   t_wo_nan, AMIspec>>

\* t = np.arange(1, n_windows + 1) * shift; the bundle; return.
\* (TimeAxisFromZero: np.arange(0, n_windows + 1) * shift)
TimeAxisFromZero(nw) == [k \in 1..(nw + 1) |-> (k - 1) * Shift]
TimeAxis(nw) == [k \in 1..nw |-> k * Shift]

AMaFinish ==
    /\ pc = "finish"
    /\ fn = "AMa_scalogram"
    /\ t' = TimeAxis(n_windows)
    /\ calls' = calls \cup {"aud_filt_bw"}
    /\ result' = "returned"
    /\ pc' = "done"
    /\ UNCHANGED <<fn, sig, fs, Nsig, Nchan, modbank_Nmod, f_spectra,
                   window_NT, Pxx, ichan, ifreq, dims, dim, n_windows, allocs,
                   AMsgram, AMspec, f0Msgram, written, undersample, f0,
                   f0_wo_nan, t_wo_nan, AMIspec>>

(***************************************************************************)
(* f0M_spectrum and f0M_scalogram: the pitch track.                        *)
(***************************************************************************)
\* The tracks mock_yin, the gating and remove_artifacts may leave for a
\* signal of n samples: at most one frame per undersample samples, any of
\* them missing.
Tracks(n, us) ==
    UNION {{[k \in 1..nf |-> IF k \in kept THEN F0Hz(k) ELSE NaN] :
               kept \in SUBSET (1..nf)} : nf \in 0..CeilDiv(n, us)}

\* w_len, mock_yin, 440 * 2^f0, gating, remove_artifacts.  -(fs // -fmin)
\* raises on a str; nothing else inspects sig or fs before mock_yin is
\* called, and outside its contract the model follows the call no further.
F0Track ==
    /\ pc = "start"
    /\ fn \in f0MEntryPoints
    /\ IF fs.type \notin {"int", "float"}
       THEN /\ result' = FloorDivTypeError
            /\ pc' = "done"
            /\ UNCHANGED <<calls, f0>>
       ELSE IF ~WellFormed(sig, fs)
            THEN /\ calls' = calls \cup {"mock_yin"}
                 /\ pc' = "collab"
                 /\ UNCHANGED <<result, f0>>
            ELSE /\ calls' = calls \cup {"mock_yin", "remove_artifacts"}
                 /\ f0' \in Tracks(Nsig, undersample)
                 /\ pc' = IF fn = "f0M_spectrum" THEN "lomb" ELSE "probe"
                 /\ result' = result
    /\ UNCHANGED <<fn, sig, fs, Nsig, Nchan, modbank_Nmod, f_spectra,
                   window_NT, Pxx, ichan, ifreq, dims, dim, n_windows, allocs,
                   AMsgram, AMspec, f0Msgram, written, t, undersample,
                   f0_wo_nan, t_wo_nan, AMIspec>>

(***************************************************************************)
(* f0M_spectrum.                                                           *)
(***************************************************************************)
\* t[::undersample][:len(f0)], the time stamps before the mask is applied
\* (FrameTimesNoStride: t[:len(f0)], the stride left out)
FrameTimesNoStride(n, us, nf) == Prefix(Arange(n), nf)
FrameTimes(n, us, nf) == Prefix(Stride(Arange(n), us), nf)

\* f0[~np.isnan(f0)]
DropMissing(x) == BoolIndex(x, NotNaNMask(x))

F0SpectrumBody ==
    /\ pc = "lomb"
    /\ f0_wo_nan' = DropMissing(f0)
    /\ LET tt == FrameTimes(Nsig, undersample, Len(f0))
       IN  IF Len(tt) # Len(f0)
           THEN /\ result' = MaskMismatch
                /\ UNCHANGED <<t_wo_nan, t, calls>>
           ELSE /\ t_wo_nan' = BoolIndex(tt, NotNaNMask(f0))
                /\ calls' = calls \cup {"define_modulation_axis", "lombscargle",
                                        "interpmean"}
                /\ t' = TimeAxisF0(Len(f0), undersample)
                /\ result' = "returned"
    /\ pc' = "done"
    /\ UNCHANGED <<fn, sig, fs, Nsig, Nchan, modbank_Nmod, f_spectra,
                   window_NT, Pxx, ichan, ifreq, dims, dim, n_windows, allocs,
                   AMsgram, AMspec, f0Msgram, written, undersample, f0,
                   AMIspec>>

(***************************************************************************)
(* f0M_scalogram.                                                          *)
(***************************************************************************)
\* windows.shape[0] of segment_into_windows(f0, fs_yin, window_length, shift,
\* False), with fs_yin = fs / undersample
F0NumWindows(m) ==
    NumWindows(Len(f0), fs.val, undersample,
               WindowLength(window_NT, f_spectra[m]), FALSE)

\* lombscargle(t_temp, f0_temp, [0.01, f])[1] for window iwin: missing as soon
\* as a sample of the window is missing, else the power of the track.
LombPower(iwin, m) ==
    IF \E k \in WindowSamples(iwin, Len(f0), fs.val, undersample,
                              WindowLength(window_NT, f_spectra[m])) : IsNaN(f0[k])
    THEN NaN
    ELSE Pxx[1]

\* The assignments f0Msgram[index, ifreq] = f0Mfft of one ifreq iteration.
F0Writes(m) ==
    LET wl == WindowLength(window_NT, f_spectra[m])
    IN  {[chan |-> 1, index |-> IndexOf(iwin, wl), ifreq |-> m,
          val |-> Twice(LombPower(iwin, m))] : iwin \in 0..(F0NumWindows(m) - 1)}

\* define_modulation_axis, fs_yin, t_yin, and one ifreq iteration of the
\* size-probe loop.
F0Probe ==
    /\ pc = "probe"
    /\ fn = "f0M_scalogram"
    /\ LET wl == WindowLength(window_NT, f_spectra[ifreq])
           nw == F0NumWindows(ifreq)
       IN  /\ dims' = dims \cup {DimOf(iwin, wl) : iwin \in 0..(nw - 1)}
           /\ n_windows' = nw
    /\ calls' = calls \cup {"define_modulation_axis", "segment_into_windows"}
    /\ IF ifreq < modbank_Nmod
       THEN ifreq' = ifreq + 1 /\ pc' = pc
       ELSE ifreq' = ifreq /\ pc' = "alloc"
    /\ UNCHANGED <<fn, sig, fs, result, Nsig, Nchan, modbank_Nmod, f_spectra,
                   window_NT, Pxx, ichan, dim, allocs, AMsgram, AMspec,
                   f0Msgram, written, t, undersample, f0, f0_wo_nan,
                   t_wo_nan, AMIspec>>

\* dim = np.max(dims); f0Msgram = np.zeros((dim, modbank_Nmod))
F0Alloc ==
    /\ pc = "alloc"
    /\ fn = "f0M_scalogram"
    /\ IF dims = {}
       THEN /\ result' = EmptyMax
            /\ pc' = "done"
            /\ UNCHANGED <<dim, f0Msgram, allocs, ifreq>>
       ELSE /\ dim' = Max(dims)
            /\ f0Msgram' = Zeros(dim', modbank_Nmod)
            /\ allocs' = allocs + 1
            /\ ifreq' = 1
            /\ pc' = "fill"
            /\ result' = result
    /\ UNCHANGED <<fn, sig, fs, calls, Nsig, Nchan, modbank_Nmod, f_spectra,
                   window_NT, Pxx, ichan, dims, n_windows, AMsgram, AMspec,
                   written, t, undersample, f0, f0_wo_nan, t_wo_nan, AMIspec>>

\* One ifreq iteration of the fill loop.
F0Fill ==
    /\ pc = "fill"
    /\ fn = "f0M_scalogram"
    /\ LET ws == F0Writes(ifreq)
       IN  /\ written' = written \cup ws
           /\ n_windows' = F0NumWindows(ifreq)
           /\ IF \E w \in ws : w.index >= dim
              THEN /\ result' = OutOfBounds
                   /\ pc' = "done"
                   /\ UNCHANGED <<f0Msgram, ifreq>>
              ELSE /\ f0Msgram' = Assign(f0Msgram, ws)
                   /\ result' = result
                   /\ IF ifreq < modbank_Nmod
                      THEN ifreq' = ifreq + 1 /\ pc' = pc
                      ELSE ifreq' = ifreq /\ pc' = "finish"
    /\ calls' = calls \cup {"segment_into_windows", "lombscargle"}
    /\ UNCHANGED <<fn, sig, fs, Nsig, Nchan, modbank_Nmod, f_spectra,
                   window_NT, Pxx, ichan, dims, dim, allocs, AMsgram, AMspec,
                   t, undersample, f0, f0_wo_nan, t_wo_nan, AMIspec>>

\* f0Msgram[f0Msgram == 0] = np.nan; return.
F0Finish ==
    /\ pc = "finish"
    /\ fn = "f0M_scalogram"
    /\ f0Msgram' = ZeroToNaN(f0Msgram)
    /\ result' = "returned"
    /\ pc' = "done"
    /\ UNCHANGED <<fn, sig, fs, calls, Nsig, Nchan, modbank_Nmod, f_spectra,
                   window_NT, Pxx, ichan, ifreq, dims, dim, n_windows, allocs,
                   AMsgram, AMspec, written, t, undersample, f0, f0_wo_nan,
                   t_wo_nan, AMIspec>>

(***************************************************************************)
(* The specification.                                                      *)
(***************************************************************************)
Next ==
    \/ Validate
    \/ FrontEnd
    \/ AMaSpectrumBody
    \/ AMiBody
    \/ AMaProbe
    \/ AMaAlloc
    \/ AMaFill
    \/ AMaChanEnd
    \/ AMaFinish
    \/ F0Track
    \/ F0SpectrumBody
    \/ F0Probe
    \/ F0Alloc
    \/ F0Fill
    \/ F0Finish

Spec == Init /\ [][Next]_vars

(***************************************************************************)
(* Vocabulary of the properties.                                           *)
(***************************************************************************)
Returned == pc = "done" /\ result = "returned"
Entered == pc # "start"

\* What the specification calls a valid argument.
ArrayLike(s) == s \in {"ndarray", "list"}
Numeric(f) == f.type \in {"int", "float"}
PositiveFinite(f) == Numeric(f) /\ f.kind = "fin" /\ f.val > 0
NonPositive(f) == Numeric(f) /\ f.kind = "fin" /\ f.val <= 0
ValidationFailures == {InvalidTypes, NotPositive}

\* The grid the called scalogram returns, and the cells its fill pass assigned.
Grid == IF fn = "AMa_scalogram" THEN AMsgram ELSE f0Msgram
Touched == {<<w.index, w.ifreq>> : w \in written}
WritesTo(c) == {w \in written : <<w.index, w.ifreq>> = c}

RECURSIVE SumVals(_)
SumVals(S) ==
    IF S = {} THEN 0
    ELSE LET w == CHOOSE x \in S : TRUE
         IN  Add(w.val, SumVals(S \ {w}))

\* The frames of a track that are not missing, in increasing order.
KeptFrames(x) == {k \in 1..Len(x) : ~IsNaN(x[k])}
KeptIdx(x) ==
    CHOOSE s \in [1..Cardinality(KeptFrames(x)) -> KeptFrames(x)] :
        \A i \in DOMAIN s, j \in DOMAIN s : i < j => s[i] < s[j]

\* Every (frequency, window) combination of the called scalogram, as the row
\* it writes.
AllWindows(m) ==
    0..((IF fn = "AMa_scalogram" THEN AMaNumWindows(m) ELSE F0NumWindows(m)) - 1)
AllRows ==
    UNION {{iwin + HalfWindow(WindowLength(window_NT, f_spectra[m])) :
               iwin \in AllWindows(m)} : m \in 1..modbank_Nmod}

(***************************************************************************)
(* C1.  AMa_scalogram: every cell written by some window of some channel   *)
(* holds, in the returned scalogram, the arithmetic sum of the per-channel *)
(* estimates written to it, zero estimates and zero partial sums included. *)
(***************************************************************************)
C1_TouchedCellHoldsSum ==
    (fn = "AMa_scalogram" /\ Returned) =>
        \A c \in Touched : AMsgram[c] = SumVals(WritesTo(c))

(***************************************************************************)
(* C2.  AMa_scalogram and f0M_scalogram: every cell of the returned grid   *)
(* that no window wrote reads as missing, never as zero.                   *)
(***************************************************************************)
C2_UntouchedCellsMissing ==
    (fn \in Scalograms /\ Returned) =>
        \A c \in DOMAIN Grid : c \notin Touched => IsNaN(Grid[c])

C2_Witness ==
    /\ fn = "f0M_scalogram"
    /\ Returned
    /\ \E c \in DOMAIN Grid : c \notin Touched
    /\ \E c \in Touched : Grid[c] > 0

C2_WitnessAMa ==
    /\ fn = "AMa_scalogram"
    /\ Returned
    /\ \E c \in DOMAIN Grid : c \notin Touched
    /\ \E c \in Touched : Grid[c] > 0

(***************************************************************************)
(* C3.  AMa_spectrum: a sig that is not array-like or an fs that is not a  *)
(* number fails as invalid input; an fs that is not positive and finite    *)
(* fails as out of range; both before any collaborator is called; and an   *)
(* array-like sig with a positive finite fs passes the validation.         *)
(***************************************************************************)
C3_AMaSpectrumValidation ==
    (fn = "AMa_spectrum" /\ Entered) =>
        /\ (~ArrayLike(sig) \/ ~Numeric(fs)) =>
               (result = InvalidTypes /\ calls = {})
        /\ (ArrayLike(sig) /\ Numeric(fs) /\ ~PositiveFinite(fs)) =>
               (result = NotPositive /\ calls = {})
        /\ (ArrayLike(sig) /\ PositiveFinite(fs)) =>
               result \notin ValidationFailures

(***************************************************************************)
(* C4.  Every entry point: a sig that is not an array, or an fs that is    *)
(* not a number or not positive, ends in a validation failure with no      *)
(* collaborator called and nothing returned.                               *)
(***************************************************************************)
C4_EveryEntryPointValidates ==
    (Entered /\ (~ArrayLike(sig) \/ ~Numeric(fs) \/ NonPositive(fs))) =>
        (result \in ValidationFailures /\ calls = {})

(***************************************************************************)
(* C5.  AMi_spectrum: for a filterbank output shaped (Nchan, Nmod, T) the  *)
(* result is Nmod x Nchan and its entry [m, c] is the scaled RMS of        *)
(* filtered[c, m, :] over the envelope mean of the same channel c.         *)
(***************************************************************************)
C5_AMIspecIsRmsOverOwnDC ==
    (fn = "AMi_spectrum" /\ pc = "done" /\ WellFormed(sig, fs)) =>
        /\ result = "returned"
        /\ AMIspec.rows = modbank_Nmod
        /\ AMIspec.cols = Nchan
        /\ \A m \in 1..modbank_Nmod, c \in 1..Nchan :
               AMIspec.at[<<m, c>>] = Quotient(Rms(c, m), DCof(c))

(***************************************************************************)
(* C6.  Both scalograms: the grid is allocated once, after the size probe  *)
(* has visited every combination and before the first write; dim is one    *)
(* more than the largest row written; every write lands in 0 .. dim - 1    *)
(* and, on return, some write landed in row dim - 1.                       *)
(***************************************************************************)
C6_GridSizedBeforeFill ==
    fn \in Scalograms =>
        /\ allocs <= 1
        /\ written # {} => (allocs = 1 /\ pc \notin {"probe", "alloc"})
        /\ allocs = 1 => (AllRows # {} /\ dim = Max(AllRows) + 1)
        /\ \A w \in written : 0 <= w.index /\ w.index < dim
        /\ Returned => \E w \in written : w.index = dim - 1

C6_Witness ==
    /\ fn = "AMa_scalogram"
    /\ Returned
    /\ modbank_Nmod >= 2
    /\ Nchan >= 2
    /\ \E w \in written : w.index = 0
    /\ \E w \in written : w.index = dim - 1 /\ w.index >= 2

C6_WitnessF0 ==
    /\ fn = "f0M_scalogram"
    /\ Returned
    /\ modbank_Nmod >= 2
    /\ \E w \in written : w.index = dim - 1 /\ w.index >= 2

(***************************************************************************)
(* C7.  f0M_spectrum: the f0 samples and the time stamps handed to         *)
(* lombscargle have the same length, hold no missing value, and the i-th   *)
(* of each comes from the i-th frame that is not missing: the f0 value of  *)
(* that frame and the time of the signal sample the frame starts at.       *)
(***************************************************************************)
C7_KeptSamplesPaired ==
    (fn = "f0M_spectrum" /\ "lombscargle" \in calls) =>
        /\ Len(f0_wo_nan) = Len(t_wo_nan)
        /\ Len(f0_wo_nan) = Cardinality(KeptFrames(f0))
        /\ \A i \in 1..Len(f0_wo_nan) :
               /\ ~IsNaN(f0_wo_nan[i])
               /\ f0_wo_nan[i] = f0[KeptIdx(f0)[i]]
               /\ t_wo_nan[i] = (KeptIdx(f0)[i] - 1) * undersample + 1

C7_Witness ==
    /\ fn = "f0M_spectrum"
    /\ Returned
    /\ undersample >= 2
    /\ Len(f0) >= 2
    /\ IsNaN(f0[1])
    /\ ~IsNaN(f0[2])
    /\ Len(t_wo_nan) >= 1

(***************************************************************************)
(* C8.  A degenerate but valid input never makes a scalogram raise: with   *)
(* no window for some or for all modulation frequencies, or with a track   *)
(* that is entirely missing, the grid is still returned.                   *)
(***************************************************************************)
C8_ScalogramsAlwaysReturn ==
    (fn \in Scalograms /\ pc = "done" /\ WellFormed(sig, fs)) =>
        result = "returned"

(***************************************************************************)
(* C9.  AMa_scalogram: the time axis t of the diagnostics bundle has one   *)
(* entry per row of the returned scalogram: len(t) = dim.                  *)
(***************************************************************************)
C9_TimeAxisHasDimEntries ==
    (fn = "AMa_scalogram" /\ Returned) => Len(t) = dim

\* As amended: t has one entry per window of the last (channel, frequency)
\* combination processed, t[k] = k * shift; that is never more than dim, and
\* when there is such a window it falls short of dim by at least that
\* combination's round(window_length / 2 / shift).
C9_TimeAxisHasLastWindowCount ==
    (fn = "AMa_scalogram" /\ Returned) =>
        /\ Len(t) = AMaNumWindows(modbank_Nmod)
        /\ \A k \in 1..Len(t) : t[k] = k * Shift
        /\ Len(t) <= dim
        /\ Len(t) >= 1 =>
               Len(t) + HalfWindow(WindowLength(window_NT,
                                                f_spectra[modbank_Nmod])) <= dim

C9_Witness ==
    /\ fn = "AMa_scalogram"
    /\ Returned
    /\ Len(t) >= 2
    /\ Len(t) < dim

(***************************************************************************)
(* C10.  f0M_spectrum: the time stamp paired with the k-th frame for the   *)
(* Lomb-Scargle estimate equals the k-th entry of the time axis returned   *)
(* in the diagnostics bundle.                                              *)
(***************************************************************************)
C10_PairedStampIsBundleStamp ==
    (fn = "f0M_spectrum" /\ Returned) =>
        \A i \in 1..Len(t_wo_nan) : t_wo_nan[i] = t[KeptIdx(f0)[i]]

====
